---------------------------- MODULE Spec2Model ----------------------------
(***************************************************************************)
(* A model of the weather lookup of python-weather-app.                    *)
(*                                                                         *)
(*   src/weather.py  api_key, WeatherData, get_lat_lon,                    *)
(*                   get_current_weather, main                             *)
(*   src/app.py      index                                                 *)
(*                                                                         *)
(* Python values are tagged records, so that None, numbers, strings,       *)
(* dicts, lists and raised exceptions can be told apart:                   *)
(*   [t |-> "None"]                the value None                          *)
(*   [t |-> "num",  n |-> k]       a float, k being the value in tenths    *)
(*   [t |-> "int",  i |-> k]       the int k                               *)
(*   [t |-> "str",  s |-> "..."]   a JSON string                           *)
(*   [t |-> "dict", d |-> f]       a dict, f a function on its keys        *)
(*   [t |-> "list", l |-> q]       a list, q a sequence                    *)
(*   [t |-> "raise", e |-> "..."]  an exception propagating to the caller  *)
(* Text that ends up in a URL (city, country, key, formatted numbers) is a *)
(* sequence of one-character strings.                                      *)
(***************************************************************************)
EXTENDS Integers, Sequences, FiniteSets, TLC

VARIABLES
    api_key,    \* weather.py: the module global read at import
    pc,         \* per web request: where its handler stands
    req,        \* per web request: the method and the form it carries
    lookups,    \* per web request: the (city, country) of each call of main
    calls,      \* per web request: the outbound HTTP calls issued, in order
    replies,    \* per web request: the provider's reply to each ended call
    latlon,     \* per web request: what get_lat_lon returned
    wargs,      \* per web request: the (lat, lon) given to get_current_weather
    wret,       \* per web request: what get_current_weather returned
    result,     \* per web request: what main returned or raised
    rendered,   \* per web request: the data handed to render_template
    t_call,     \* one outbound call on the clock: the call
    t_phase,    \* its phase
    t_total,    \* seconds since that call was started
    t_quiet,    \* seconds since the socket last made progress
    t_chunks    \* chunks of the response received so far

vars == <<api_key, pc, req, lookups, calls, replies, latlon, wargs, wret,
          result, rendered, t_call, t_phase, t_total, t_quiet, t_chunks>>

reqVars == <<api_key, pc, req, lookups, calls, replies, latlon, wargs, wret,
             result, rendered>>

clockVars == <<t_call, t_phase, t_total, t_quiet, t_chunks>>

---------------------------------------------------------------------------
(* Bounds of the model.                                                    *)

NumRequests == 2    \* web requests served concurrently
MaxNameLen == 2     \* characters in a city or country name
MaxTemp == 1        \* provider temperatures range over -MaxTemp.9 .. MaxTemp.9
MaxCoord == 1       \* extra coordinates range over -0.MaxCoord .. 0.MaxCoord
MaxChunks == 2      \* chunks a provider may split one response into
MaxClock == 24      \* seconds the clock of the timing model runs

Reqs == 1..NumRequests

---------------------------------------------------------------------------
(* Python values.                                                          *)

None == [t |-> "None"]
Num(k) == [t |-> "num", n |-> k]
Str(s) == [t |-> "str", s |-> s]
Dict(f) == [t |-> "dict", d |-> f]
List(q) == [t |-> "list", l |-> q]
Raise(e) == [t |-> "raise", e |-> e]
IntVal(k) == [t |-> "int", i |-> k]
Unset == [t |-> "unset"]

IsRaise(v) == v.t = "raise"

\* d.get(k, default) on a value d: only a dict has the method.
DictGet(v, k, default) ==
    IF v.t # "dict" THEN Raise("AttributeError")
    ELSE IF k \in DOMAIN v.d THEN v.d[k] ELSE default

\* v[0]
Item0(v) ==
    CASE v.t = "list" -> IF Len(v.l) = 0 THEN Raise("IndexError") ELSE v.l[1]
      [] v.t = "dict" -> Raise("KeyError")
      [] v.t = "str"  -> v
      [] OTHER        -> Raise("TypeError")

\* The mutant of PyInt: rounding to the nearest integer.
PyIntRound(v) ==
    CASE v.t = "num" -> IF v.n >= 0 THEN IntVal((v.n + 5) \div 10)
                        ELSE IntVal(-((5 - v.n) \div 10))
      [] v.t = "str" -> Raise("ValueError")
      [] OTHER       -> Raise("TypeError")

\* int(v): a float is truncated towards zero.
PyInt(v) ==
    CASE v.t = "num" -> IF v.n >= 0 THEN IntVal(v.n \div 10)
                        ELSE IntVal(-((-v.n) \div 10))
      [] v.t = "str" -> Raise("ValueError")
      [] OTHER       -> Raise("TypeError")

---------------------------------------------------------------------------
(* Text.                                                                   *)

Digits == <<"0", "1", "2", "3", "4", "5", "6", "7", "8", "9">>

RECURSIVE DecText(_)
DecText(k) ==
    IF k < 10 THEN <<Digits[k + 1]>>
    ELSE DecText(k \div 10) \o <<Digits[(k % 10) + 1]>>

\* str(v) as an f-string writes it: None, or a float with its fraction.
PyStr(v) ==
    CASE v.t = "None" -> <<"N", "o", "n", "e">>
      [] v.t = "num"  ->
            LET a == IF v.n < 0 THEN -v.n ELSE v.n
            IN  (IF v.n < 0 THEN <<"-">> ELSE <<>>)
                \o DecText(a \div 10) \o <<".">> \o <<Digits[(a % 10) + 1]>>


\* All texts over the characters cs of at most n characters.
RECURSIVE Texts(_, _)
Texts(cs, n) ==
    IF n = 0 THEN {<<>>}
    ELSE LET shorter == Texts(cs, n - 1)
         IN  shorter \cup {Append(s, c) : s \in shorter, c \in cs}

---------------------------------------------------------------------------
(* The provider.  A reply to an outbound call is a transport failure, a    *)
(* body that is no JSON, or a body holding a JSON value.                   *)

Fail(e) == [t |-> "fail", e |-> e]
NotJson == [t |-> "notjson"]
Body(j) == [t |-> "body", json |-> j]

HttpTimeout == 10

\* requests.get(url, timeout=10).json(): the parsed body, or what is raised.
HttpJson(reply) ==
    CASE reply.t = "fail"    -> Raise(reply.e)
      [] reply.t = "notjson" -> Raise("JSONDecodeError")
      [] reply.t = "body"    -> reply.json

---------------------------------------------------------------------------
(* weather.py                                                              *)

Pair(lat, lon) == [t |-> "pair", lat |-> lat, lon |-> lon]

WeatherData(main, description, icon, temp) ==
    [t |-> "WeatherData", main |-> main, description |-> description,
     icon |-> icon, temp |-> temp]

\* The text after "?" of the URL get_lat_lon requests.
get_lat_lon_url(city_name, country_name, apikey) ==
    <<"q", "=">> \o city_name \o <<",">> \o country_name
    \o <<"&", "a", "p", "p", "i", "d", "=">> \o apikey

\* The mutant of get_lat_lon: response["coord"] in place of
\* response.get("coord", {}).
get_lat_lon_subscript(reply) ==
    LET response == HttpJson(reply)
        coord == IF response.t # "dict" THEN Raise("TypeError")
                 ELSE IF "coord" \in DOMAIN response.d THEN response.d["coord"]
                 ELSE Raise("KeyError")
        lat == DictGet(coord, "lat", None)
        lon == DictGet(coord, "lon", None)
    IN  IF IsRaise(response) THEN response
        ELSE IF IsRaise(coord) THEN coord
        ELSE IF IsRaise(lat) THEN lat
        ELSE Pair(lat, lon)

\* get_lat_lon, from the reply to its request on.
get_lat_lon(reply) ==
    LET response == HttpJson(reply)
        coord == DictGet(response, "coord", Dict(<<>>))
        lat == DictGet(coord, "lat", None)
        lon == DictGet(coord, "lon", None)
    IN  IF IsRaise(response) THEN response
        ELSE IF IsRaise(coord) THEN coord
        ELSE IF IsRaise(lat) THEN lat
        ELSE Pair(lat, lon)

\* The text after "?" of the URL get_current_weather requests.
get_current_weather_url(lat, lon, apikey) ==
    <<"l", "a", "t", "=">> \o PyStr(lat)
    \o <<"&", "l", "o", "n", "=">> \o PyStr(lon)
    \o <<"&", "a", "p", "p", "i", "d", "=">> \o apikey
    \o <<"&", "u", "n", "i", "t", "s", "=", "m", "e", "t", "r", "i", "c">>

\* response.get("weather")[0].get(k)
weather0_get(response, k) ==
    LET w == DictGet(response, "weather", None)
        e == Item0(w)
    IN  IF IsRaise(w) THEN w
        ELSE IF IsRaise(e) THEN e
        ELSE DictGet(e, k, None)

\* int(response.get("main").get("temp"))
main_temp(response) ==
    LET m == DictGet(response, "main", None)
        v == DictGet(m, "temp", None)
    IN  IF IsRaise(m) THEN m
        ELSE IF IsRaise(v) THEN v
        ELSE PyInt(v)

\* get_current_weather, from the reply to its request on.  The keyword
\* arguments of WeatherData are evaluated in order; the first to raise ends
\* the call.
get_current_weather(reply) ==
    LET response == HttpJson(reply)
        main == weather0_get(response, "main")
        description == weather0_get(response, "description")
        icon == weather0_get(response, "icon")
        temp == main_temp(response)
    IN  IF IsRaise(response) THEN response
        ELSE IF IsRaise(main) THEN main
        ELSE IF IsRaise(description) THEN description
        ELSE IF IsRaise(icon) THEN icon
        ELSE IF IsRaise(temp) THEN temp
        ELSE WeatherData(main, description, icon, temp)


\* main, line 151: the coordinates it hands to get_current_weather.  The
\* mutants swap them, and take them from a variable all lookups share.
main_weather_args_swapped(r, ll) == Pair(ll.lon, ll.lat)

main_weather_args_shared(r, ll) ==
    LET others == {o \in Reqs \ {r} : latlon[o] # Unset}
    IN  IF others = {} THEN ll
        ELSE latlon[CHOOSE o \in others : \A p \in others : o <= p]

main_weather_args(r, ll) == Pair(ll.lat, ll.lon)

\* main, line 152: what it returns.
main_return(weather_data) == weather_data

---------------------------------------------------------------------------
(* app.py                                                                  *)

Render(data) == [t |-> "render", data |-> data]

FormFields == {"cityName", "countryName"}

HasForm(q) == FormFields \subseteq DOMAIN q.form

\* index, lines 40-42: the arguments of get_weather.  The mutant swaps them.
index_lookup_args_swapped(form) == <<form["countryName"], form["cityName"]>>

index_lookup_args(form) == <<form["cityName"], form["countryName"]>>

---------------------------------------------------------------------------
(* What the environment supplies: requests, keys and provider replies.     *)

NameChars == {"T", "#", "&"}
KeyChars == {"k", "9"}

Get == [method |-> "GET", form |-> <<>>]
Post(city, country) ==
    [method |-> "POST", form |-> [cityName |-> city, countryName |-> country]]
PostNoCountry(city) == [method |-> "POST", form |-> [cityName |-> city]]

Toronto == <<"T", "o", "r", "o", "n", "t", "o">>
CA == <<"C", "A">>
Paris == <<"P", "a", "r", "i", "s">>
FR == <<"F", "R">>

FewForms == {Get, PostNoCountry(Toronto), Post(Toronto, CA), Post(Paris, FR)}
AllForms ==
    {Get, PostNoCountry(Toronto)} \cup
    {Post(c, n) : c \in Texts(NameChars, MaxNameLen),
                  n \in Texts(NameChars, MaxNameLen)}

FewKeys == {<<"k", "9">>}
AllKeys == Texts(KeyChars, 2) \ {<<>>}

CoordVals == {437, -794} \cup (-MaxCoord..MaxCoord)
TempVals == {129, -129} \cup (-(10 * MaxTemp + 9)..(10 * MaxTemp + 9))

Coord(lat, lon) == Dict([lat |-> lat, lon |-> lon])
NotFound == Dict([cod |-> Str("404"), message |-> Str("city not found")])

FewCoordReplies ==
    {Fail("ConnectionError"), Fail("Timeout"), Body(NotFound),
     Body(Dict([coord |-> Coord(Num(437), Num(-794))])),
     Body(Dict([coord |-> Coord(Num(1), Num(-1))]))}
AllCoordReplies ==
    FewCoordReplies \cup
    {NotJson, Body(List(<<>>)), Body(Dict([coord |-> None])),
     Body(Dict([coord |-> Str("x")])), Body(Dict([coord |-> Dict(<<>>)])),
     Body(Dict([coord |-> Dict([lat |-> Num(437)])])),
     Body(Dict([coord |-> Dict([lon |-> Num(-794)])]))} \cup
    {Body(Dict([coord |-> Coord(Num(a), Num(b)), cod |-> Num(2000)])) :
        a \in CoordVals, b \in CoordVals}

\* weather[0] with the keys ks.
Condition(ks) ==
    Dict([k \in ks |->
            CASE k = "main" -> Str("Clouds")
              [] k = "description" -> Str("overcast clouds")
              [] k = "icon" -> Str("04d")])
ConditionKeys == {"main", "description", "icon"}

WeatherJson(ws, ms) ==
    {Dict([weather |-> w, main |-> m]) : w \in ws, m \in ms} \cup
    {Dict([weather |-> w]) : w \in ws} \cup
    {Dict([main |-> m]) : m \in ms}

BadCoord == Dict([cod |-> Str("400"), message |-> Str("wrong latitude")])

FewWeatherReplies ==
    {Fail("Timeout"), Body(BadCoord),
     Body(Dict([weather |-> List(<<Condition(ConditionKeys)>>),
                main |-> Dict([temp |-> Num(129)])])),
     Body(Dict([weather |-> List(<<Condition(ConditionKeys)>>),
                main |-> Dict([temp |-> Num(-5)])]))}
AllWeatherReplies ==
    FewWeatherReplies \cup
    {Fail("ConnectionError"), NotJson, Body(List(<<>>))} \cup
    {Body(j) : j \in WeatherJson(
        {None, List(<<>>)} \cup
            {List(<<Condition(ks)>>) : ks \in SUBSET ConditionKeys},
        {None, Dict(<<>>)} \cup {Dict([temp |-> Num(k)]) : k \in TempVals})}


---------------------------------------------------------------------------
(* The state after import: the key is read, no request has arrived.        *)

InitRequests(keys) ==
    /\ api_key \in keys
    /\ pc = [r \in Reqs |-> "idle"]
    /\ req = [r \in Reqs |-> Unset]
    /\ lookups = [r \in Reqs |-> <<>>]
    /\ calls = [r \in Reqs |-> <<>>]
    /\ replies = [r \in Reqs |-> <<>>]
    /\ latlon = [r \in Reqs |-> Unset]
    /\ wargs = [r \in Reqs |-> Unset]
    /\ wret = [r \in Reqs |-> Unset]
    /\ result = [r \in Reqs |-> Unset]
    /\ rendered = [r \in Reqs |-> Unset]

InitClock ==
    /\ t_call = Unset
    /\ t_phase = "idle"
    /\ t_total = 0
    /\ t_quiet = 0
    /\ t_chunks = 0

---------------------------------------------------------------------------
(* One web request, from its arrival to the response of index.  A handler  *)
(* blocks in requests.get twice; what runs between two blocking points is  *)
(* one action.                                                             *)

Call(fn, url) == [fn |-> fn, url |-> url, timeout |-> HttpTimeout]

\* A request for "/" arrives.
Receive(r, forms) ==
    /\ pc[r] = "idle"
    /\ \E q \in forms : req' = [req EXCEPT ![r] = q]
    /\ pc' = [pc EXCEPT ![r] = "index"]
    /\ UNCHANGED <<api_key, lookups, calls, replies, latlon, wargs, wret,
                   result, rendered>>
    /\ UNCHANGED clockVars

\* index, any method but POST: data stays None and the page is rendered.
IndexGet(r) ==
    /\ pc[r] = "index"
    /\ req[r].method # "POST"
    /\ rendered' = [rendered EXCEPT ![r] = Render(None)]
    /\ pc' = [pc EXCEPT ![r] = "done"]
    /\ UNCHANGED <<api_key, req, lookups, calls, replies, latlon, wargs, wret,
                   result>>
    /\ UNCHANGED clockVars

\* index, POST, request.form lacks a field: the subscript raises.
IndexPostNoField(r) ==
    /\ pc[r] = "index"
    /\ req[r].method = "POST"
    /\ ~HasForm(req[r])
    /\ rendered' = [rendered EXCEPT ![r] = Raise("BadRequestKeyError")]
    /\ pc' = [pc EXCEPT ![r] = "failed"]
    /\ UNCHANGED <<api_key, req, lookups, calls, replies, latlon, wargs, wret,
                   result>>
    /\ UNCHANGED clockVars

\* index, POST: main is called, get_lat_lon sends its request and blocks.
IndexPost(r) ==
    /\ pc[r] = "index"
    /\ req[r].method = "POST"
    /\ HasForm(req[r])
    /\ LET args == index_lookup_args(req[r].form)
       IN  /\ lookups' = [lookups EXCEPT ![r] = Append(@, args)]
           /\ calls' = [calls EXCEPT ![r] =
                 Append(@, Call("get_lat_lon",
                                get_lat_lon_url(args[1], args[2], api_key)))]
    /\ pc' = [pc EXCEPT ![r] = "coord_call"]
    /\ UNCHANGED <<api_key, req, replies, latlon, wargs, wret, result,
                   rendered>>
    /\ UNCHANGED clockVars

\* The first request ends and get_lat_lon returns: main calls
\* get_current_weather, which sends its request and blocks.
CoordReturn(r, offered) ==
    /\ pc[r] = "coord_call"
    /\ \E reply \in offered :
          LET ll == get_lat_lon(reply)
              args == main_weather_args(r, ll)
          IN  /\ ~IsRaise(ll)
              /\ replies' = [replies EXCEPT ![r] = Append(@, reply)]
              /\ latlon' = [latlon EXCEPT ![r] = ll]
              /\ wargs' = [wargs EXCEPT ![r] = args]
              /\ calls' = [calls EXCEPT ![r] =
                    Append(@, Call("get_current_weather",
                       get_current_weather_url(args.lat, args.lon, api_key)))]
    /\ pc' = [pc EXCEPT ![r] = "weather_call"]
    /\ UNCHANGED <<api_key, req, lookups, wret, result, rendered>>
    /\ UNCHANGED clockVars

\* The mutant of CoordRaise: main catches the failure, goes on with
\* (None, None) and get_current_weather sends its request.
CoordRaiseCaught(r, offered) ==
    /\ pc[r] = "coord_call"
    /\ \E reply \in offered :
          LET ll == get_lat_lon(reply)
          IN  /\ IsRaise(ll)
              /\ replies' = [replies EXCEPT ![r] = Append(@, reply)]
              /\ calls' = [calls EXCEPT ![r] =
                    Append(@, Call("get_current_weather",
                       get_current_weather_url(None, None, api_key)))]
    /\ latlon' = [latlon EXCEPT ![r] = Pair(None, None)]
    /\ wargs' = [wargs EXCEPT ![r] = Pair(None, None)]
    /\ pc' = [pc EXCEPT ![r] = "weather_call"]
    /\ UNCHANGED <<api_key, req, lookups, wret, result, rendered>>
    /\ UNCHANGED clockVars

\* The first request ends and get_lat_lon raises: nothing catches it, so it
\* leaves main and index.
CoordRaise(r, offered) ==
    /\ pc[r] = "coord_call"
    /\ \E reply \in offered :
          LET ll == get_lat_lon(reply)
          IN  /\ IsRaise(ll)
              /\ replies' = [replies EXCEPT ![r] = Append(@, reply)]
              /\ result' = [result EXCEPT ![r] = ll]
              /\ rendered' = [rendered EXCEPT ![r] = ll]
    /\ pc' = [pc EXCEPT ![r] = "failed"]
    /\ UNCHANGED <<api_key, req, lookups, calls, latlon, wargs, wret>>
    /\ UNCHANGED clockVars

\* The second request ends and get_current_weather returns: main returns
\* the record and index renders it.
WeatherReturn(r, offered) ==
    /\ pc[r] = "weather_call"
    /\ \E reply \in offered :
          LET weather_data == get_current_weather(reply)
          IN  /\ ~IsRaise(weather_data)
              /\ replies' = [replies EXCEPT ![r] = Append(@, reply)]
              /\ wret' = [wret EXCEPT ![r] = weather_data]
              /\ result' = [result EXCEPT ![r] = main_return(weather_data)]
              /\ rendered' = [rendered EXCEPT ![r] =
                                 Render(main_return(weather_data))]
    /\ pc' = [pc EXCEPT ![r] = "done"]
    /\ UNCHANGED <<api_key, req, lookups, calls, latlon, wargs>>
    /\ UNCHANGED clockVars

\* The second request ends and get_current_weather raises.
WeatherRaise(r, offered) ==
    /\ pc[r] = "weather_call"
    /\ \E reply \in offered :
          LET weather_data == get_current_weather(reply)
          IN  /\ IsRaise(weather_data)
              /\ replies' = [replies EXCEPT ![r] = Append(@, reply)]
              /\ result' = [result EXCEPT ![r] = weather_data]
              /\ rendered' = [rendered EXCEPT ![r] = weather_data]
    /\ pc' = [pc EXCEPT ![r] = "failed"]
    /\ UNCHANGED <<api_key, req, lookups, calls, latlon, wargs, wret>>
    /\ UNCHANGED clockVars

Serve(r, forms, coordReplies, weatherReplies) ==
    \/ Receive(r, forms)
    \/ IndexGet(r)
    \/ IndexPostNoField(r)
    \/ IndexPost(r)
    \/ CoordReturn(r, coordReplies)
    \/ CoordRaise(r, coordReplies)
    \/ WeatherReturn(r, weatherReplies)
    \/ WeatherRaise(r, weatherReplies)

\* Concurrently served requests.
Init == InitRequests(FewKeys) /\ InitClock
Next == \E r \in Reqs : Serve(r, FewForms, FewCoordReplies, FewWeatherReplies)
Spec == Init /\ [][Next]_vars

\* One request, every form and key.
InitForms == InitRequests(AllKeys) /\ InitClock
NextForms == Serve(1, AllForms, FewCoordReplies, FewWeatherReplies)
SpecForms == InitForms /\ [][NextForms]_vars

\* One request, every reply of the provider.
InitReplies == InitRequests(FewKeys) /\ InitClock
NextReplies == Serve(1, FewForms, AllCoordReplies, AllWeatherReplies)
SpecReplies == InitReplies /\ [][NextReplies]_vars


---------------------------------------------------------------------------
(* One outbound call on a clock of seconds.  requests.get(url, timeout=10) *)
(* hands the one number to the connection as its connect timeout and as    *)
(* its read timeout: the first bounds the wait for the connection, the     *)
(* second each wait for further bytes of the response.  Neither bounds the *)
(* call as a whole.                                                        *)

Waiting == t_phase \in {"connecting", "reading"}

\* get_lat_lon or get_current_weather calls requests.get.
StartCall(fn) ==
    /\ t_phase = "idle"
    /\ t_call' = Call(fn, <<>>)
    /\ t_phase' = "connecting"
    /\ UNCHANGED <<t_total, t_quiet, t_chunks>>
    /\ UNCHANGED reqVars

\* A second passes with the socket silent.
Tick ==
    /\ Waiting
    /\ t_quiet < t_call.timeout
    /\ t_total < MaxClock
    /\ t_total' = t_total + 1
    /\ t_quiet' = t_quiet + 1
    /\ UNCHANGED <<t_call, t_phase, t_chunks>>
    /\ UNCHANGED reqVars

\* The provider accepts the connection.
Connected ==
    /\ t_phase = "connecting"
    /\ t_quiet < t_call.timeout
    /\ t_phase' = "reading"
    /\ t_quiet' = 0
    /\ UNCHANGED <<t_call, t_total, t_chunks>>
    /\ UNCHANGED reqVars

\* A part of the response arrives.
ReceiveChunk ==
    /\ t_phase = "reading"
    /\ t_quiet < t_call.timeout
    /\ t_chunks < MaxChunks
    /\ t_chunks' = t_chunks + 1
    /\ t_quiet' = 0
    /\ UNCHANGED <<t_call, t_phase, t_total>>
    /\ UNCHANGED reqVars

\* The last part of the response arrives and requests.get returns.
ReceiveLast ==
    /\ t_phase = "reading"
    /\ t_quiet < t_call.timeout
    /\ t_phase' = "returned"
    /\ UNCHANGED <<t_call, t_total, t_quiet, t_chunks>>
    /\ UNCHANGED reqVars

\* The connect timeout expires: requests.get raises ConnectTimeout.
ConnectTimeout ==
    /\ t_phase = "connecting"
    /\ t_quiet = t_call.timeout
    /\ t_phase' = "timeout"
    /\ UNCHANGED <<t_call, t_total, t_quiet, t_chunks>>
    /\ UNCHANGED reqVars

\* The read timeout expires: requests.get raises ReadTimeout.
ReadTimeout ==
    /\ t_phase = "reading"
    /\ t_quiet = t_call.timeout
    /\ t_phase' = "timeout"
    /\ UNCHANGED <<t_call, t_total, t_quiet, t_chunks>>
    /\ UNCHANGED reqVars

InitTime == InitRequests(FewKeys) /\ InitClock
NextTime ==
    \/ \E fn \in {"get_lat_lon", "get_current_weather"} : StartCall(fn)
    \/ Tick
    \/ Connected
    \/ ReceiveChunk
    \/ ReceiveLast
    \/ ConnectTimeout
    \/ ReadTimeout
SpecTime == InitTime /\ [][NextTime]_vars


---------------------------------------------------------------------------
(* How the receiver of a request reads the text after "?": the fragment    *)
(* (from the first "#" on) is never sent, "&" separates the parameters     *)
(* and the first "=" of a parameter separates its name from its value.     *)

RECURSIVE Before(_, _)
Before(s, c) ==
    IF s = <<>> \/ Head(s) = c THEN <<>>
    ELSE <<Head(s)>> \o Before(Tail(s), c)

RECURSIVE After(_, _)
After(s, c) ==
    IF s = <<>> THEN <<>>
    ELSE IF Head(s) = c THEN Tail(s)
    ELSE After(Tail(s), c)

Has(s, c) == \E i \in DOMAIN s : s[i] = c

RECURSIVE Split(_, _)
Split(s, c) ==
    IF Has(s, c) THEN <<Before(s, c)>> \o Split(After(s, c), c)
    ELSE <<s>>

\* The values the query of url gives the parameter name.
QueryValues(url, name) ==
    LET ps == Split(Before(url, "#"), "&")
    IN  {After(ps[i], "=") : i \in {j \in DOMAIN ps : Before(ps[j], "=") = name}}

AppId == <<"a", "p", "p", "i", "d">>
Lat == <<"l", "a", "t">>
Lon == <<"l", "o", "n">>

---------------------------------------------------------------------------
(* C1.  When get_lat_lon returns a pair and get_current_weather returns a  *)
(* record, main has handed exactly that pair, lat first, to                *)
(* get_current_weather, and what main returns has the main, description,   *)
(* icon and temp of that record.                                           *)

---------------------------------------------------------------------------
(* C2.  When get_lat_lon yields (None, None), main returns no WeatherData, *)
(* whatever the provider replies to the second call.                       *)

C2_NoRecordWithoutCoordinates ==
    \A r \in Reqs :
        latlon[r] = Pair(None, None) => result[r].t # "WeatherData"

---------------------------------------------------------------------------
(* C3.  The temp of the record get_current_weather returns is the          *)
(* provider's temperature with its fraction dropped: it lies between zero  *)
(* and the temperature, less than one degree from it.                      *)

ProviderTemp(r) == replies[r][2].json.d["main"].d["temp"].n

C3_WitnessNegative ==
    \E r \in Reqs :
        /\ wret[r] # Unset
        /\ ProviderTemp(r) = -129
        /\ wret[r].temp = IntVal(-12)

---------------------------------------------------------------------------
(* C4.  Every outbound call carries the parameter appid exactly once, and  *)
(* its value is the configured key.                                        *)

C4_KeyInEveryCall ==
    \A r \in Reqs : \A i \in DOMAIN calls[r] :
        QueryValues(calls[r][i].url, AppId) = {api_key}

---------------------------------------------------------------------------
(* C5.  An outbound call waits at most 10 seconds in total: no call is     *)
(* still waiting, or returns, later than 10 seconds after it was started.  *)

C5_TotalWaitBounded == t_total <= HttpTimeout

---------------------------------------------------------------------------
(* C6.  When the provider's JSON object has no coord, get_lat_lon returns  *)
(* (None, None) and raises nothing; when it has a coord with lat and lon,  *)
(* get_lat_lon returns those two values.                                   *)

CoordJson(r) == replies[r][1].json

IsJsonObject(reply) == reply.t = "body" /\ reply.json.t = "dict"

---------------------------------------------------------------------------
(* C7.  get_current_weather returns a WeatherData only for a well-formed   *)
(* response: a weather list whose first element has main, description and  *)
(* icon, and a main object with temp.                                      *)

WellFormed(reply) ==
    /\ IsJsonObject(reply)
    /\ {"weather", "main"} \subseteq DOMAIN reply.json.d
    /\ reply.json.d["weather"].t = "list"
    /\ Len(reply.json.d["weather"].l) >= 1
    /\ reply.json.d["weather"].l[1].t = "dict"
    /\ ConditionKeys \subseteq DOMAIN reply.json.d["weather"].l[1].d
    /\ reply.json.d["main"].t = "dict"
    /\ "temp" \in DOMAIN reply.json.d["main"].d

\* C7: a returned WeatherData implies a well-formed response.
C7_RecordOnlyIfWellFormed ==
    \A r \in Reqs : wret[r] # Unset => WellFormed(replies[r][2])

---------------------------------------------------------------------------
(* C8.  A lookup is one linear sequence: its first call is the coordinate  *)
(* call, its second and last the weather call, issued only once the        *)
(* coordinate call has returned; a lookup that has ended made the          *)
(* coordinate call exactly once; and when the coordinate call fails in     *)
(* transport, no weather call is issued and the lookup fails with that     *)
(* failure.                                                                *)

C8_LinearSequence ==
    \A r \in Reqs :
        /\ Len(calls[r]) <= 2
        /\ Len(replies[r]) <= Len(calls[r])
        /\ lookups[r] # <<>> => Len(calls[r]) >= 1
        /\ Len(calls[r]) >= 1 => calls[r][1].fn = "get_lat_lon"
        /\ Len(calls[r]) = 2 =>
              /\ calls[r][2].fn = "get_current_weather"
              /\ Len(replies[r]) >= 1
              /\ replies[r][1].t # "fail"
              /\ latlon[r].t = "pair"
        /\ (Len(replies[r]) >= 1 /\ replies[r][1].t = "fail") =>
              /\ Len(calls[r]) = 1
              /\ pc[r] = "failed"
              /\ result[r] = Raise(replies[r][1].e)

C8_Witness ==
    \E r \in Reqs :
        /\ pc[r] = "failed"
        /\ replies[r] = <<Fail("Timeout")>>
        /\ \E o \in Reqs : pc[o] = "done" /\ Len(calls[o]) = 2

---------------------------------------------------------------------------
(* C9.  Under every interleaving the key keeps the value read at import,   *)
(* and the weather call of a lookup carries the coordinates that lookup's  *)
(* own coordinate call returned.                                           *)

OwnCoordinates ==
    \A r \in Reqs :
        Len(calls[r]) = 2 =>
            /\ wargs[r] = latlon[r]
            /\ QueryValues(calls[r][2].url, Lat) = {PyStr(latlon[r].lat)}
            /\ QueryValues(calls[r][2].url, Lon) = {PyStr(latlon[r].lon)}
            /\ QueryValues(calls[r][2].url, AppId) = {api_key}

\* C9: the key never changes and every weather call carries its own
\* lookup's coordinates.
C9_NoSharingBetweenLookups ==
    /\ [][api_key' = api_key]_vars
    /\ []OwnCoordinates

C9_Witness ==
    \E r \in Reqs, o \in Reqs :
        /\ pc[r] = "weather_call"
        /\ pc[o] = "weather_call"
        /\ latlon[r] = Pair(Num(437), Num(-794))
        /\ latlon[o] = Pair(None, None)

---------------------------------------------------------------------------
(* C10.  index on GET makes no lookup and no outbound call and renders     *)
(* data = None; on POST with both fields it makes exactly one lookup, with *)
(* the form's cityName and countryName, and renders what that lookup       *)
(* returned; when the lookup raises, nothing is rendered.                  *)

C10_WitnessFailed ==
    \E r \in Reqs :
        /\ req[r] = Post(Toronto, CA)
        /\ pc[r] = "failed"
        /\ Len(lookups[r]) = 1
        /\ rendered[r].t = "raise"

============================================================================
